---- MODULE Spec2Model ----
(***************************************************************************)
(* Snapshot store (db.py, sqlite3 + pickle) and the replay program          *)
(* (replay.py: shelve-backed Snapshot, ReplayApplication, VLANRouter,        *)
(* VLANNode, main).                                                          *)
(*                                                                           *)
(* Python values are pairs <<type, payload>>; a Python str that the code     *)
(* splits on ":" (an object identifier) is the sequence of its segments,     *)
(* so "device:100" is <<"device", "100">> and "-" is <<"-">>.                *)
(***************************************************************************)
EXTENDS Integers, Sequences, FiniteSets, TLC

\* ------------------------------------------------------------------ bounds
\* rows the sqlite table may hold before a further insert is not tried
MaxRows == 3
\* connections writing to the same database file
NWriters == 2

\* ------------------------------------------------------- python / sql values
None == <<"NoneType", "None">>
PyInt(s) == <<"int", s>>
PyStr(s) == <<"str", s>>

\* sqlite3 adapts a Python parameter to an SQL value of a storage class
Bind(x) ==
    IF x[1] = "int" THEN <<"integer", x[2]>>
    ELSE IF x[1] = "bytes" THEN <<"blob", x[2]>>
    ELSE <<"text", x[2]>>

\* and converts a column of a fetched row back to a Python value
Fetch(c) ==
    IF c[1] = "integer" THEN <<"int", c[2]>>
    ELSE IF c[1] = "blob" THEN <<"bytes", c[2]>>
    ELSE <<"str", c[2]>>

\* devid, objid and propid are declared "text": an integer stored into them,
\* or compared with them, is converted to its decimal text
TextAffinity(c) == IF c[1] = "integer" THEN <<"text", c[2]>> ELSE c

\* pickle.dumps / pickle.loads
Dumps(v) == <<"bytes", <<"pickle", v>>>>
Loads(b) == b[2][2]

\* the keys and values the callers use
DevIds  == {PyInt("1"), PyStr("1"), PyStr("2")}
ObjIds  == {PyStr("device:1"), PyStr("analog-input:0")}
PropIds == {PyStr("objectName"), PyStr("presentValue")}
Items   ==
    {<<PyInt("1"), PyStr("device:1"), PyStr("objectName")>>,
     <<PyStr("1"), PyStr("device:1"), PyStr("objectName")>>,
     <<PyInt("1"), PyStr("analog-input:0"), PyStr("objectName")>>,
     <<PyInt("1"), PyStr("analog-input:0"), PyStr("presentValue")>>,
     <<PyStr("2"), PyStr("device:1"), PyStr("objectName")>>}
Values  == {PyStr("Router"), PyInt("15")}

VARIABLES
    table,      \* rows of table snapshot, in rowid order (committed content)
    ret,        \* the last call on the store and what it returned
    before,     \* table as it was when that call started
    written,    \* the keys that set was called for so far, as stored
    gen,        \* the generator a call of items() returned, and how far it ran
    conn,       \* per writer connection: position inside __setitem__
    lock,       \* the connection holding the database write lock (0: free)
    stored,     \* per stored key: the value of the set that committed last
    shelf,      \* replay.py: entries of the shelve file, in iteration order
    args_devid, \* replay.py: args.devid
    pc,         \* replay.py: position of main
    idx,        \* index i of the peer loop of main
    err,        \* the exception that left the try block of main
    tried,      \* device identifiers ReplayApplication was called with
    apps,       \* the ReplayApplication instances built so far
    vlan,       \* vlan.nodes: address and application of each node
    transport,  \* applications bound to the external BACnet/IP transport
    deferredFns,\* functions handed to deferred() and not yet called
    announced,  \* calls of i_am_router_to_network: the vlan seen by each
    stderr,     \* lines written to sys.stderr
    status      \* process exit status (-1: not exited)

dbvars == <<ret, before, written, gen>>
racevars == <<conn, lock, stored>>
storevars == <<table, ret, before, written, gen, conn, lock, stored>>
replayvars == <<shelf, args_devid, pc, idx, err, tried, apps, vlan, transport,
                deferredFns, announced, stderr, status>>
vars == <<storevars, replayvars>>

\* ---------------------------------------------------------------- sqlite
Columns == <<"devid", "objid", "propid">>

KeyOf(row) == <<row.devid, row.objid, row.propid>>

\* the columns of a row to be inserted from the statement's parameters
RowOf(params) ==
    [devid  |-> TextAffinity(Bind(params[1])),
     objid  |-> TextAffinity(Bind(params[2])),
     propid |-> TextAffinity(Bind(params[3])),
     value  |-> Bind(params[4])]

\* the key an item is stored under
StoredKey(item) == KeyOf(RowOf(item \o <<None>>))

NoPrimaryKey(tbl, row) == FALSE

\* primary key (devid, objid, propid)
PrimaryKeyViolated(tbl, row) == \E i \in 1..Len(tbl) : KeyOf(tbl[i]) = KeyOf(row)

\* "insert into snapshot values (?, ?, ?, ?)"
ExecInsert(tbl, params) ==
    LET row == RowOf(params) IN
    IF PrimaryKeyViolated(tbl, row)
    THEN [ok |-> FALSE, table |-> tbl]
    ELSE [ok |-> TRUE, table |-> Append(tbl, row)]

\* "(name = ?) and ..." on a row: each named column equals its parameter
Where(row, names, args) ==
    \A i \in 1..Len(names) : row[names[i]] = TextAffinity(Bind(args[i]))

UpdateBadOrder(tbl, params) ==
    [i \in 1..Len(tbl) |->
        IF Where(tbl[i], Columns, SubSeq(params, 1, 3))
        THEN [tbl[i] EXCEPT !.value = Bind(params[4])]
        ELSE tbl[i]]

\* "update snapshot set value = ? where (devid = ?) and (objid = ?) and (propid = ?)"
ExecUpdate(tbl, params) ==
    [i \in 1..Len(tbl) |->
        IF Where(tbl[i], Columns, SubSeq(params, 2, 4))
        THEN [tbl[i] EXCEPT !.value = Bind(params[1])]
        ELSE tbl[i]]

SelectAnyProp(tbl, names, args) ==
    SelectSeq(tbl, LAMBDA r : Where(r, SubSeq(names, 1, Len(names) - 1),
                                       SubSeq(args, 1, Len(args) - 1)))

\* "select ... from snapshot [where ...]": the matching rows, in table order
ExecSelect(tbl, names, args) ==
    SelectSeq(tbl, LAMBDA r : Where(r, names, args))

\* ------------------------------------------------------- db.py: Snapshot
GetItemRaw(tbl, item) ==
    LET rows == ExecSelect(tbl, Columns, item) IN
    IF rows = <<>> THEN None ELSE Fetch(rows[1].value)

GetItemAnyProp(tbl, item) ==
    LET rows == SelectAnyProp(tbl, Columns, item) IN
    IF rows = <<>> THEN None ELSE Loads(Fetch(rows[1].value))

\* __getitem__
GetItemValue(tbl, item) ==
    LET rows == ExecSelect(tbl, Columns, item) IN
    IF rows = <<>> THEN None ELSE Loads(Fetch(rows[1].value))

\* __setitem__ on one connection with nobody else writing
SetItemTable(tbl, item, value) ==
    LET r == ExecInsert(tbl, item \o <<Dumps(value)>>) IN
    IF r.ok THEN r.table
    ELSE ExecUpdate(tbl, <<Dumps(value)>> \o item)

\* items(): query_vars / query_args from the arguments that are not None
QueryBadVars(devid, objid, propid) ==
    (IF devid # None THEN <<"devid">> ELSE <<>>)
    \o (IF objid # None THEN <<"objid">> ELSE <<>>)
    \o (IF propid # None THEN <<"objid">> ELSE <<>>)

QueryVars(devid, objid, propid) ==
    (IF devid # None THEN <<"devid">> ELSE <<>>)
    \o (IF objid # None THEN <<"objid">> ELSE <<>>)
    \o (IF propid # None THEN <<"propid">> ELSE <<>>)

QueryArgs(devid, objid, propid) ==
    (IF devid # None THEN <<devid>> ELSE <<>>)
    \o (IF objid # None THEN <<objid>> ELSE <<>>)
    \o (IF propid # None THEN <<propid>> ELSE <<>>)

\* what items() yields for one fetched row
Yielded(row) ==
    <<Fetch(row.devid), Fetch(row.objid), Fetch(row.propid), Loads(Fetch(row.value))>>

\* items(), consumed to its end
ItemsAll(tbl, devid, objid, propid) ==
    LET rows == ExecSelect(tbl, QueryVars(devid, objid, propid),
                           QueryArgs(devid, objid, propid))
    IN [i \in 1..Len(rows) |-> Yielded(rows[i])]

NoCall == [op |-> "none", args |-> <<>>, value |-> None, result |-> <<>>,
           afterSet |-> <<>>]

\* no generator: items() was not called
NoGenerator == [state |-> "none", args |-> <<>>, rows |-> <<>>, out |-> <<>>,
                atCall |-> <<>>, atStart |-> <<>>]

\* ---------------------------------------------- one connection, call by call
SetItem(item, value) ==
    /\ PrimaryKeyViolated(table, RowOf(item \o <<None>>)) \/ Len(table) < MaxRows
    /\ table' = SetItemTable(table, item, value)
    /\ ret' = [op |-> "set", args |-> item, value |-> value, result |-> <<>>,
               afterSet |-> <<>>]
    /\ before' = table
    /\ written' = written \cup {StoredKey(item)}
    /\ UNCHANGED <<gen, racevars, replayvars>>

\* afterSet: the value of the set of the same item that this get follows directly
GetItem(item) ==
    /\ ret' = [op |-> "get", args |-> item, value |-> None,
               result |-> <<GetItemValue(table, item)>>,
               afterSet |-> IF ret.op = "set" /\ ret.args = item
                            THEN <<ret.value>> ELSE <<>>]
    /\ before' = table
    /\ UNCHANGED <<table, written, gen, racevars, replayvars>>

ItemsCall(devid, objid, propid) ==
    /\ ret' = [op |-> "items", args |-> <<devid, objid, propid>>, value |-> None,
               result |-> ItemsAll(table, devid, objid, propid), afterSet |-> <<>>]
    /\ before' = table
    /\ UNCHANGED <<table, written, gen, racevars, replayvars>>

Idle == [pc |-> "idle", item |-> <<>>, value |-> None, path |-> "none",
         landed |-> FALSE]

InitRace ==
    /\ conn = [w \in 1..NWriters |-> Idle]
    /\ lock = 0
    /\ stored = {}

InitStore ==
    /\ table = <<>>
    /\ ret = NoCall
    /\ before = <<>>
    /\ written = {}
    /\ gen = NoGenerator
    /\ InitRace

\* the replay program is not started
NoReplay ==
    /\ shelf = <<>>
    /\ args_devid = <<>>
    /\ pc = "off"
    /\ idx = 0
    /\ err = <<>>
    /\ tried = <<>>
    /\ apps = <<>>
    /\ vlan = <<>>
    /\ transport = {}
    /\ deferredFns = <<>>
    /\ announced = <<>>
    /\ stderr = <<>>
    /\ status = -1

InitDb == InitStore /\ NoReplay

NextDb ==
    \/ \E item \in Items, value \in Values : SetItem(item, value)
    \/ \E item \in Items : GetItem(item)
    \/ \E devid \in DevIds \cup {None}, objid \in ObjIds \cup {None},
          propid \in PropIds \cup {None} : ItemsCall(devid, objid, propid)

SpecDb == InitDb /\ [][NextDb]_vars

\* ------------------------------------------ items() consumed step by step
\* the keys set while a generator is open, and the filters it is called with
GenItems ==
    {<<PyInt("1"), PyStr("device:1"), PyStr("objectName")>>,
     <<PyInt("1"), PyStr("analog-input:0"), PyStr("presentValue")>>}

GenFilters ==
    {<<None, None, None>>,
     <<PyInt("1"), PyStr("analog-input:0"), None>>}

RowsLive(g, tbl) ==
    LET rows == ExecSelect(tbl, QueryVars(g.args[1], g.args[2], g.args[3]),
                           QueryArgs(g.args[1], g.args[2], g.args[3]))
    IN  SubSeq(rows, Len(g.out) + 1, Len(rows))

\* "for row in self.cursor.fetchall()": the rows the loop still has to visit
\* are those of the list fetchall returned, whatever the table holds now
RowsLeft(g, tbl) == g.rows

\* snap.items(devid, objid, propid): calling a generator function runs none of
\* its body; it returns a generator that holds the arguments
ItemsCreate(devid, objid, propid) ==
    /\ gen.state = "none"
    /\ gen' = [state |-> "created", args |-> <<devid, objid, propid>>,
               rows |-> <<>>, out |-> <<>>, atCall |-> table, atStart |-> <<>>]
    /\ UNCHANGED <<table, ret, before, written, racevars, replayvars>>

\* the first next(): the body runs from its start, executes the query on the
\* table as it is now, fetches every row, and yields the first or returns
GenStart ==
    /\ gen.state = "created"
    /\ LET rows == ExecSelect(table, QueryVars(gen.args[1], gen.args[2], gen.args[3]),
                              QueryArgs(gen.args[1], gen.args[2], gen.args[3]))
       IN  gen' = IF rows = <<>>
                  THEN [gen EXCEPT !.state = "done", !.atStart = table]
                  ELSE [gen EXCEPT !.state = "running", !.atStart = table,
                                   !.rows = Tail(rows),
                                   !.out = <<Yielded(Head(rows))>>]
    /\ UNCHANGED <<table, ret, before, written, racevars, replayvars>>

\* a later next(): the loop yields the next fetched row, or ends
GenNext ==
    /\ gen.state = "running"
    /\ LET rows == RowsLeft(gen, table)
       IN  gen' = IF rows = <<>>
                  THEN [gen EXCEPT !.state = "done", !.rows = <<>>]
                  ELSE [gen EXCEPT !.rows = Tail(rows),
                                   !.out = Append(gen.out, Yielded(Head(rows)))]
    /\ UNCHANGED <<table, ret, before, written, racevars, replayvars>>

NextGen ==
    \/ \E item \in GenItems, value \in Values : SetItem(item, value)
    \/ \E f \in GenFilters : ItemsCreate(f[1], f[2], f[3])
    \/ GenStart
    \/ GenNext

SpecGen == InitDb /\ [][NextGen]_vars

\* ------------------------------- several connections, __setitem__ step by step
\* Each writer has its own connection to the same file.  The insert statement
\* opens a transaction and takes the database write lock, which the connection
\* keeps until its commit, also when the statement fails on the primary key.
RaceItems ==
    {<<PyInt("1"), PyStr("device:1"), PyStr("objectName")>>,
     <<PyStr("1"), PyStr("device:1"), PyStr("objectName")>>,
     <<PyStr("2"), PyStr("device:1"), PyStr("objectName")>>}

Callable(w) == conn[w].pc \in {"idle", "returned", "raised"}

HasRow(tbl, item, value) ==
    \E i \in 1..Len(tbl) :
        KeyOf(tbl[i]) = StoredKey(item) /\ tbl[i].value = Bind(Dumps(value))

\* cursor.execute("insert ...") with the lock free: the row is pending
InsertOk(w, item, value) ==
    /\ Callable(w)
    /\ lock = 0
    /\ Len(table) < MaxRows
    /\ ExecInsert(table, item \o <<Dumps(value)>>).ok
    /\ lock' = w
    /\ conn' = [conn EXCEPT ![w] = [pc |-> "inserted", item |-> item,
                    value |-> value, path |-> "insert", landed |-> FALSE]]
    /\ UNCHANGED <<table, stored, dbvars, replayvars>>

\* cursor.execute("insert ...") raises sqlite3.IntegrityError, which is caught
InsertIntegrityError(w, item, value) ==
    /\ Callable(w)
    /\ lock = 0
    /\ ~ExecInsert(table, item \o <<Dumps(value)>>).ok
    /\ lock' = w
    /\ conn' = [conn EXCEPT ![w] = [pc |-> "caught", item |-> item,
                    value |-> value, path |-> "update", landed |-> FALSE]]
    /\ UNCHANGED <<table, stored, dbvars, replayvars>>

\* cursor.execute("insert ...") while another connection holds the lock: when
\* the busy timeout runs out sqlite3.OperationalError leaves __setitem__
InsertLocked(w, item, value) ==
    /\ Callable(w)
    /\ lock \notin {0, w}
    /\ conn' = [conn EXCEPT ![w] = [pc |-> "raised", item |-> item,
                    value |-> value, path |-> "none", landed |-> FALSE]]
    /\ UNCHANGED <<table, lock, stored, dbvars, replayvars>>

\* connection.commit() after the insert; __setitem__ returns
CommitInsert(w) ==
    /\ conn[w].pc = "inserted"
    /\ table' = ExecInsert(table, conn[w].item \o <<Dumps(conn[w].value)>>).table
    /\ lock' = 0
    /\ stored' = {s \in stored : s[1] # StoredKey(conn[w].item)}
                 \cup {<<StoredKey(conn[w].item), conn[w].value>>}
    /\ conn' = [conn EXCEPT ![w].pc = "returned",
                            ![w].landed = HasRow(table', conn[w].item, conn[w].value)]
    /\ UNCHANGED <<dbvars, replayvars>>

\* cursor.execute("update ...") in the except branch
UpdateStep(w) ==
    /\ conn[w].pc = "caught"
    /\ conn' = [conn EXCEPT ![w].pc = "updated"]
    /\ UNCHANGED <<table, lock, stored, dbvars, replayvars>>

\* connection.commit() after the update; __setitem__ returns
CommitUpdate(w) ==
    /\ conn[w].pc = "updated"
    /\ table' = ExecUpdate(table, <<Dumps(conn[w].value)>> \o conn[w].item)
    /\ lock' = 0
    /\ stored' = {s \in stored : s[1] # StoredKey(conn[w].item)}
                 \cup {<<StoredKey(conn[w].item), conn[w].value>>}
    /\ conn' = [conn EXCEPT ![w].pc = "returned",
                            ![w].landed = HasRow(table', conn[w].item, conn[w].value)]
    /\ UNCHANGED <<dbvars, replayvars>>

NextRace ==
    \/ \E w \in 1..NWriters, item \in RaceItems, value \in Values :
          InsertOk(w, item, value)
    \/ \E w \in 1..NWriters, item \in RaceItems, value \in Values :
          InsertIntegrityError(w, item, value)
    \/ \E w \in 1..NWriters, item \in RaceItems, value \in Values :
          InsertLocked(w, item, value)
    \/ \E w \in 1..NWriters : CommitInsert(w)
    \/ \E w \in 1..NWriters : UpdateStep(w)
    \/ \E w \in 1..NWriters : CommitUpdate(w)

SpecRace == InitDb /\ [][NextRace]_vars

\* ------------------------------------------------------------ store claims
RowsFor(tbl, key) == {i \in 1..Len(tbl) : KeyOf(tbl[i]) = key}

\* C1: a get(k) that directly follows set(k, v) returns a value equal to v,
\* whatever the table held before the set.
C1_RoundTrip ==
    (ret.op = "get" /\ ret.afterSet # <<>>) => ret.result = ret.afterSet

C1_Witness ==
    /\ ret.op = "get"
    /\ ret.afterSet = <<PyInt("15")>>
    /\ ret.args[1] = PyInt("1")
    /\ Len(table) >= 2

\* C2: the table never holds two rows with the same key, and right after
\* set(k, v) it holds exactly one row for k, whose value is v, whether the
\* set inserted the row or updated it.
C2_OneRowPerKey ==
    /\ \A i, j \in 1..Len(table) : KeyOf(table[i]) = KeyOf(table[j]) => i = j
    /\ ret.op = "set" =>
          \E i \in 1..Len(table) :
             /\ RowsFor(table, StoredKey(ret.args)) = {i}
             /\ table[i].value = Bind(Dumps(ret.value))

C2_Witness ==
    /\ ret.op = "set"
    /\ \E i \in 1..Len(before) :
          /\ KeyOf(before[i]) = StoredKey(ret.args)
          /\ before[i].value # Bind(Dumps(ret.value))
    /\ Len(table) > 1

\* C3: with writers interleaved step by step, the table never holds two rows
\* with the same key; every set that returned had its value in the table when
\* it committed; and the row of every key holds the value of the set on that
\* key that committed last (in particular once all sets have returned).
C3_NoDuplicateNoLostUpdate ==
    /\ \A i, j \in 1..Len(table) : KeyOf(table[i]) = KeyOf(table[j]) => i = j
    /\ \A w \in 1..NWriters : conn[w].pc = "returned" => conn[w].landed
    /\ \A s \in stored :
          \E i \in 1..Len(table) :
             /\ RowsFor(table, s[1]) = {i}
             /\ Loads(Fetch(table[i].value)) = s[2]

C3_Witness ==
    /\ \A w \in 1..NWriters : conn[w].pc = "returned"
    /\ \A w, x \in 1..NWriters : StoredKey(conn[w].item) = StoredKey(conn[x].item)
    /\ \E w, x \in 1..NWriters :
          /\ conn[w].value # conn[x].value
          /\ conn[w].path = "insert"
          /\ conn[x].path = "update"
          /\ conn[w].item # conn[x].item

\* a stored row satisfies the filters that were supplied
Matches(row, devid, objid, propid) ==
    /\ devid # None => row.devid = TextAffinity(Bind(devid))
    /\ objid # None => row.objid = TextAffinity(Bind(objid))
    /\ propid # None => row.propid = TextAffinity(Bind(propid))

Matching(tbl, devid, objid, propid) ==
    {i \in 1..Len(tbl) : Matches(tbl[i], devid, objid, propid)}

Range(seq) == {seq[i] : i \in 1..Len(seq)}

\* C4: items(devid, objid, propid) yields exactly the stored records that
\* equal every supplied filter, each once; so what it yields for a devid and
\* a propid is among what it yields for the devid alone.
C4_ItemsFilter ==
    /\ ret.op = "items" =>
          /\ Range(ret.result) =
                {Yielded(before[i]) :
                    i \in Matching(before, ret.args[1], ret.args[2], ret.args[3])}
          /\ Len(ret.result) =
                Cardinality(Matching(before, ret.args[1], ret.args[2], ret.args[3]))
    /\ \A d \in DevIds, p \in PropIds :
          Range(ItemsAll(table, d, None, p)) \subseteq Range(ItemsAll(table, d, None, None))

C4_Witness ==
    /\ ret.op = "items"
    /\ ret.args[1] # None /\ ret.args[2] = None /\ ret.args[3] # None
    /\ Len(ret.result) = 2
    /\ Len(ItemsAll(before, ret.args[1], None, None)) = 3

\* C5: get on a key that set was never called for returns None and leaves
\* the table as it was.
C5_AbsentKey ==
    (ret.op = "get" /\ StoredKey(ret.args) \notin written) =>
        (ret.result = <<None>> /\ table = before)

C5_Witness ==
    /\ ret.op = "get"
    /\ StoredKey(ret.args) \notin written
    /\ \E i \in 1..Len(table) :
          /\ table[i].devid = StoredKey(ret.args)[1]
          /\ table[i].objid = StoredKey(ret.args)[2]

\* ------------------------------------------------- replay.py: the snapshot
\* bounds of the replay program's inputs
MaxDevs == 3

\* an optional argument: <<>> is None, <<x>> is x
NoArg == <<>>
Arg(x) == <<x>>

\* s.split(":"): every segment is a str of its own
Split(s) == [j \in 1..Len(s) |-> <<s[j]>>]

\* "device:{}".format(device_id)
DeviceObjectId(d) == <<"device", ToString(d)>>

\* str(item) of a key tuple, and eval(k) of that text
StrOf(item) == <<"repr", item>>
Eval(k) == k[2]

ShelfGetOrNone(sh, item) ==
    LET hits == {j \in 1..Len(sh) : sh[j].k = StrOf(item)} IN
    IF hits = {} THEN [raised |-> "none", value |-> None]
    ELSE [raised |-> "none", value |-> sh[CHOOSE j \in hits : TRUE].v]

\* Snapshot.__getitem__: self.shelf[str(item)], KeyError when there is none
ShelfGet(sh, item) ==
    LET hits == {j \in 1..Len(sh) : sh[j].k = StrOf(item)} IN
    IF hits = {} THEN [raised |-> "KeyError", value |-> None]
    ELSE [raised |-> "none", value |-> sh[CHOOSE j \in hits : TRUE].v]

\* objtype, objinst = (objid + ":").split(":")[:2]
ObjInst(objid) == Split(objid \o <<"">>)[2]

\* Snapshot.items: what the loop body does with one shelf entry
ItemStep(k, dev, objid, propid) ==
    LET d == Eval(k)[1]
        o == Eval(k)[2]
        p == Eval(k)[3]
    IN  IF dev # NoArg /\ d # dev[1] THEN "skip"
        ELSE IF objid # NoArg /\ ObjInst(objid[1]) # <<"">> /\ o # objid[1] THEN "skip"
        ELSE IF objid # NoArg /\ Len(Split(o)) # 2 THEN "ValueError"
        ELSE IF objid # NoArg /\ o # Split(o)[1] THEN "skip"
        ELSE IF propid # NoArg /\ p # propid[1] THEN "skip"
        ELSE "yield"

\* Snapshot.items over the first n entries of the shelf: the tuples yielded,
\* and the exception that ended the iteration, if any
RECURSIVE ShelfItems(_, _, _, _, _)
ShelfItems(sh, n, dev, objid, propid) ==
    IF n = 0 THEN [out |-> <<>>, raised |-> "none"]
    ELSE LET r == ShelfItems(sh, n - 1, dev, objid, propid)
             step == ItemStep(sh[n].k, dev, objid, propid)
         IN  IF r.raised # "none" \/ step = "skip" THEN r
             ELSE IF step = "ValueError" THEN [r EXCEPT !.raised = "ValueError"]
             ELSE [r EXCEPT !.out = Append(r.out, Eval(sh[n].k) \o <<sh[n].v>>)]

\* ---------------------------------------- replay.py: ReplayApplication
\* properties that are built-in
BuiltinProps ==
    {"localDate", "localTime", "protocolServicesSupported", "propertyList", "objectList"}

\* setattr(obj, name, value) on a property map
Put(m, name, value) == {x \in m : x[1] # name} \cup {<<name, value>>}

\* LocalDeviceObject(objectName=..., objectIdentifier=("device", d), vendorIdentifier=...)
LocalDeviceObject(name, d, vendor) ==
    {<<"objectName", name>>,
     <<"objectIdentifier", <<"tuple", ToString(d)>>>>,
     <<"vendorIdentifier", vendor>>}

\* for d, o, p, v in snapshot.items(device_id, device_object_id): setattr
RECURSIVE SetDeviceAttrs(_, _, _)
SetDeviceAttrs(dev, its, n) ==
    IF n = 0 THEN dev
    ELSE LET prev == SetDeviceAttrs(dev, its, n - 1) IN
         IF its[n][3] \in BuiltinProps THEN prev
         ELSE Put(prev, its[n][3], its[n][4])

RECURSIVE PoolNoMerge(_, _, _)
PoolNoMerge(its, n, device_object_id) ==
    IF n = 0 THEN <<>>
    ELSE LET prev == PoolNoMerge(its, n - 1, device_object_id)
             o == its[n][2]
         IN  IF o = <<"-">> \/ o = device_object_id THEN prev
             ELSE Append(prev, [oid |-> o, props |-> {<<its[n][3], its[n][4]>>}])

\* obj_prop_map after the first n items: one entry per object identifier, in
\* the order of first encounter
RECURSIVE PoolObjects(_, _, _)
PoolObjects(its, n, device_object_id) ==
    IF n = 0 THEN <<>>
    ELSE LET prev == PoolObjects(its, n - 1, device_object_id)
             o == its[n][2]
             at == {j \in 1..Len(prev) : prev[j].oid = o}
         IN  IF o = <<"-">> \/ o = device_object_id THEN prev
             ELSE IF at = {}
             THEN Append(prev, [oid |-> o, props |-> {<<its[n][3], its[n][4]>>}])
             ELSE [j \in 1..Len(prev) |->
                     IF j \in at
                     THEN [prev[j] EXCEPT !.props = Put(@, its[n][3], its[n][4])]
                     ELSE prev[j]]

\* object types get_object_class knows, and those with a presentValue
ObjectTypes == {"analog-input", "analog-value", "binary-input", "device"}
PresentValueTypes == {"analog-input", "analog-value", "binary-input"}
Numerals == {"0", "1", "3", "100", "200"}

\* building one object from its property map
BuildObject(g) ==
    IF Len(Split(g.oid)) # 2 THEN [raised |-> "ValueError"]
    ELSE IF g.oid[2] \notin Numerals THEN [raised |-> "ValueError"]
    ELSE IF g.oid[1] \notin ObjectTypes THEN [raised |-> "TypeError"]
    ELSE [raised |-> "none",
          obj |-> [oid |-> g.oid, type |-> g.oid[1], instance |-> g.oid[2],
                   props |-> g.props,
                   mutablePresentValue |-> g.oid[1] \in PresentValueTypes]]

\* for object_identifer, prop_map in obj_prop_map.items(): ... add_object
RECURSIVE BuildObjects(_, _)
BuildObjects(groups, n) ==
    IF n = 0 THEN [raised |-> "none", objects |-> <<>>]
    ELSE LET r == BuildObjects(groups, n - 1)
             b == BuildObject(groups[n])
         IN  IF r.raised # "none" THEN r
             ELSE IF b.raised # "none" THEN [r EXCEPT !.raised = b.raised]
             ELSE [r EXCEPT !.objects = Append(r.objects, b.obj)]

ConfigurationError(d, what) ==
    [raised |-> "ConfigurationError", msg |-> <<"device", d, what, "not found">>]

DeviceAttrsUnfiltered(sh, d, name, vendor) ==
    LET mine == ShelfItems(sh, Len(sh), Arg(d), NoArg, NoArg).out
        own == SelectSeq(mine, LAMBDA t : t[2] = DeviceObjectId(d))
    IN  [raised |-> "none",
         device |-> LET RECURSIVE SetAll(_)
                        SetAll(n) == IF n = 0 THEN LocalDeviceObject(name, d, vendor)
                                     ELSE Put(SetAll(n - 1), own[n][3], own[n][4])
                    IN SetAll(Len(own))]

\* the device object: LocalDeviceObject and the loop over
\* snapshot.items(device_id, device_object_id)
DeviceAttrs(sh, d, name, vendor) ==
    LET its == ShelfItems(sh, Len(sh), Arg(d), Arg(DeviceObjectId(d)), NoArg) IN
    [raised |-> its.raised,
     device |-> SetDeviceAttrs(LocalDeviceObject(name, d, vendor), its.out, Len(its.out))]

\* ReplayApplication.__init__(device_id): the exception it raises, or the
\* application with its device object and its objects
ReplayApplication(sh, d) ==
    LET name == ShelfGet(sh, <<d, DeviceObjectId(d), "objectName">>)
        vendor == ShelfGet(sh, <<d, DeviceObjectId(d), "vendorIdentifier">>)
        dev == DeviceAttrs(sh, d, name.value, vendor.value)
        all == ShelfItems(sh, Len(sh), Arg(d), NoArg, NoArg)
        groups == PoolObjects(all.out, Len(all.out), DeviceObjectId(d))
        objs == BuildObjects(groups, Len(groups))
    IN  IF name.raised = "KeyError" THEN ConfigurationError(d, "object name")
        ELSE IF vendor.raised = "KeyError" THEN ConfigurationError(d, "vendor identifier")
        ELSE IF dev.raised # "none" THEN [raised |-> dev.raised, msg |-> <<>>]
        ELSE IF all.raised # "none" THEN [raised |-> all.raised, msg |-> <<>>]
        ELSE IF objs.raised # "none" THEN [raised |-> objs.raised, msg |-> <<>>]
        ELSE [raised |-> "none", msg |-> <<>>,
              app |-> [device_id |-> d, device |-> dev.device, objects |-> objs.objects]]

\* ------------------------------------------------------- replay.py: main
\* the snapshot files and command lines considered
Devices == {100, 200}

Records(d) ==
    << <<d, DeviceObjectId(d), "objectName", PyStr("Name")>>,
       <<d, DeviceObjectId(d), "vendorIdentifier", PyInt("15")>>,
       <<d, DeviceObjectId(d), "objectList", <<"list", "[]">> >>,
       <<d, DeviceObjectId(d), "description", PyStr("desc")>>,
       <<d, <<"analog-input", "0">>, "presentValue", <<"float", "72.5">> >> >>

AllRecords == Records(100) \o Records(200)

Reverse(seq) == [j \in 1..Len(seq) |-> seq[Len(seq) + 1 - j]]

\* the shelf holding the records numbered in S, iterated forwards or backwards
ShelfOf(S, backwards) ==
    LET picked == SelectSeq([j \in 1..Len(AllRecords) |-> <<j, AllRecords[j]>>],
                            LAMBDA e : e[1] \in S)
        entries == [j \in 1..Len(picked) |->
                      [k |-> StrOf(SubSeq(picked[j][2], 1, 3)), v |-> picked[j][2][4]]]
    IN  IF backwards THEN Reverse(entries) ELSE entries

NoError == [raised |-> "none", msg |-> <<>>]

InitReplay ==
    /\ \E S \in SUBSET (1..Len(AllRecords)), backwards \in BOOLEAN :
          shelf = ShelfOf(S, backwards)
    /\ \E n \in 1..MaxDevs : args_devid \in [1..n -> Devices]
    /\ pc = "start"
    /\ idx = 0
    /\ err = NoError
    /\ tried = <<>>
    /\ apps = <<>>
    /\ vlan = <<>>
    /\ transport = {}
    /\ deferredFns = <<>>
    /\ announced = <<>>
    /\ stderr = <<>>
    /\ status = -1

\* where main goes when ReplayApplication raised: the except clause for
\* ConfigurationError; any other exception is not caught and ends the process
Raised(r) ==
    /\ err' = [raised |-> r.raised, msg |-> r.msg]
    /\ IF r.raised = "ConfigurationError"
       THEN pc' = "except" /\ status' = status
       ELSE pc' = "crashed" /\ status' = 1

AddressFromOne(i) == i + 1

\* vlan_address = Address(i + 2)
VlanAddress(i) == i + 2

\* router = VLANRouter(local_address, local_network, local_device_id): the
\* application is built first, then the BACnet/IP stack is bound to the socket
RouterInit ==
    /\ pc = "start"
    /\ LET r == ReplayApplication(shelf, args_devid[1]) IN
       /\ tried' = Append(tried, args_devid[1])
       /\ IF r.raised = "none"
          THEN /\ apps' = Append(apps, r.app)
               /\ transport' = {Len(apps) + 1}
               /\ pc' = "vlan"
               /\ UNCHANGED <<err, status>>
          ELSE /\ Raised(r)
               /\ UNCHANGED <<apps, transport>>
    /\ UNCHANGED <<shelf, args_devid, idx, vlan, deferredFns, announced, stderr,
                   storevars>>

\* vlan = Network(...); router_node = Node(Address(1)); vlan.add_node(router_node);
\* router.rapp.nsap.bind(router_node, vlan_network); deferred(...)
VlanInit ==
    /\ pc = "vlan"
    /\ vlan' = Append(vlan, [addr |-> 1, app |-> 1])
    /\ deferredFns' = Append(deferredFns, "i_am_router_to_network")
    /\ idx' = 0
    /\ pc' = "peers"
    /\ UNCHANGED <<shelf, args_devid, err, tried, apps, transport, announced,
                   stderr, status, storevars>>

\* one round of "for i, device_id in enumerate(args.devid[1:])":
\* VLANNode(vlan_address, device_id) and vlan.add_node(vlan_app.vlan_node)
PeerInit ==
    /\ pc = "peers"
    /\ idx < Len(args_devid) - 1
    /\ LET r == ReplayApplication(shelf, args_devid[idx + 2]) IN
       /\ tried' = Append(tried, args_devid[idx + 2])
       /\ IF r.raised = "none"
          THEN /\ apps' = Append(apps, r.app)
               /\ vlan' = Append(vlan, [addr |-> VlanAddress(idx), app |-> Len(apps) + 1])
               /\ idx' = idx + 1
               /\ UNCHANGED <<pc, err, status>>
          ELSE /\ Raised(r)
               /\ UNCHANGED <<apps, vlan, idx>>
    /\ UNCHANGED <<shelf, args_devid, transport, deferredFns, announced, stderr,
                   storevars>>

\* except ConfigurationError as err: sys.stderr.write(...); sys.exit(1)
HandleConfigurationError ==
    /\ pc = "except"
    /\ stderr' = Append(stderr, <<"configuration err: ", err.msg>>)
    /\ status' = 1
    /\ pc' = "exited"
    /\ UNCHANGED <<shelf, args_devid, idx, err, tried, apps, vlan, transport,
                   deferredFns, announced, storevars>>

\* the loop is over: VLANConsoleCmd(), enable_sleeping(), run()
Run ==
    /\ pc = "peers"
    /\ idx = Len(args_devid) - 1
    /\ pc' = "running"
    /\ UNCHANGED <<shelf, args_devid, idx, err, tried, apps, vlan, transport,
                   deferredFns, announced, stderr, status, storevars>>

RunDeferredEarly ==
    /\ deferredFns # <<>>
    /\ announced' = Append(announced, [fn |-> Head(deferredFns), vlan |-> vlan])
    /\ deferredFns' = Tail(deferredFns)
    /\ UNCHANGED <<shelf, args_devid, pc, idx, err, tried, apps, vlan, transport,
                   stderr, status, storevars>>

\* the event loop calls a deferred function
RunDeferred ==
    /\ pc = "running"
    /\ deferredFns # <<>>
    /\ announced' = Append(announced, [fn |-> Head(deferredFns), vlan |-> vlan])
    /\ deferredFns' = Tail(deferredFns)
    /\ UNCHANGED <<shelf, args_devid, pc, idx, err, tried, apps, vlan, transport,
                   stderr, status, storevars>>

NextReplay ==
    \/ RouterInit
    \/ VlanInit
    \/ PeerInit
    \/ HandleConfigurationError
    \/ Run
    \/ RunDeferred

InitMain == InitStore /\ InitReplay

SpecReplay == InitMain /\ [][NextReplay]_vars

\* ----------------------------------------------------------- replay claims
\* C6: the router's node has address 1 and the node of peer k (counted from 0)
\* has address k + 2, in the order of args.devid; the addresses on the vlan
\* are pairwise distinct, also when a device identifier is repeated.
C6_Addresses ==
    /\ \A j \in 1..Len(vlan) :
          /\ vlan[j].addr = j
          /\ apps[vlan[j].app].device_id = args_devid[j]
    /\ \A j, k \in 1..Len(vlan) : vlan[j].addr = vlan[k].addr => j = k
    /\ pc = "running" => Len(vlan) = Len(args_devid)

C6_Witness ==
    /\ pc = "running"
    /\ Len(args_devid) = 3
    /\ args_devid[1] = 100 /\ args_devid[2] = 200 /\ args_devid[3] = 200
    /\ vlan[3].addr = 3

\* the shelf has a record for property prop of the device object of d
HasDeviceRecord(d, prop) ==
    \E j \in 1..Len(shelf) : Eval(shelf[j].k) = <<d, DeviceObjectId(d), prop>>

\* the mandatory property of device d that the shelf lacks, looked up in the
\* order of the code
MissingOf(d) ==
    IF ~HasDeviceRecord(d, "objectName") THEN "object name"
    ELSE IF ~HasDeviceRecord(d, "vendorIdentifier") THEN "vendor identifier"
    ELSE "nothing"

\* C7: when the shelf lacks objectName or vendorIdentifier of the device
\* object of a device that ReplayApplication is called for, that call raises
\* ConfigurationError naming the property and the device; main then writes one
\* line to stderr and exits with status 1, and the event loop never starts.
C7_MissingMandatory ==
    \A j \in 1..Len(tried) :
        MissingOf(tried[j]) # "nothing" =>
            /\ j = Len(tried)
            /\ err = [raised |-> "ConfigurationError",
                      msg |-> <<"device", tried[j], MissingOf(tried[j]), "not found">>]
            /\ pc \in {"except", "exited"}
            /\ announced = <<>>
            /\ pc = "exited" =>
                  /\ status = 1
                  /\ stderr = << <<"configuration err: ", err.msg>> >>

C7_Witness ==
    /\ pc = "exited"
    /\ Len(tried) = 2
    /\ MissingOf(tried[1]) = "nothing"
    /\ MissingOf(tried[2]) = "vendor identifier"
    /\ status = 1
    /\ Len(stderr) = 1

\* C8: once building a device model has failed with ConfigurationError, no
\* node is bound to the external transport or attached to the vlan.
C8_AllOrNothing ==
    pc \in {"except", "exited"} => (transport = {} /\ vlan = <<>>)

\* C9: every record of a built device is in its model: under the device
\* object as a property of the device descriptor unless its name is built-in,
\* under any other object identifier as a property of the object built for it.
C9_NoRecordDropped ==
    \A a \in 1..Len(apps) : \A j \in 1..Len(shelf) :
        LET rec == Eval(shelf[j].k) IN
        rec[1] = apps[a].device_id =>
            IF rec[2] = DeviceObjectId(rec[1])
            THEN rec[3] \notin BuiltinProps => <<rec[3], shelf[j].v>> \in apps[a].device
            ELSE \E n \in 1..Len(apps[a].objects) :
                    /\ apps[a].objects[n].oid = rec[2]
                    /\ <<rec[3], shelf[j].v>> \in apps[a].objects[n].props

\* C10: the device descriptor of a built device has no property named
\* localDate, localTime, protocolServicesSupported, propertyList or objectList
\* taken from the shelf.
C10_NoBuiltinProps ==
    \A a \in 1..Len(apps) : \A x \in apps[a].device : x[1] \notin BuiltinProps

C10_Witness ==
    /\ Len(apps) = 2
    /\ HasDeviceRecord(apps[2].device_id, "objectList")
    /\ HasDeviceRecord(apps[2].device_id, "description")
    /\ pc = "running"

\* ------------------------------------- replay.py: main on richer snapshots
\* records beyond the device object's mandatory ones that a shelf may hold
MaxExtra == 3

BaseRecords ==
    << <<100, DeviceObjectId(100), "objectName", PyStr("Name")>>,
       <<100, DeviceObjectId(100), "vendorIdentifier", PyInt("15")>> >>

ExtraRecords ==
    << <<100, <<"analog-input", "0">>, "presentValue", <<"float", "72.5">> >>,
       <<100, <<"analog-input", "0">>, "objectName", PyStr("AI0")>>,
       <<100, <<"analog-value", "1">>, "presentValue", <<"float", "1.0">> >>,
       <<100, <<"-">>, "comment", PyStr("note")>>,
       <<100, <<"bogus", "0">>, "presentValue", <<"float", "2.0">> >>,
       <<100, <<"analog-input">>, "presentValue", <<"float", "3.0">> >>,
       <<100, <<"analog-input", "x">>, "presentValue", <<"float", "4.0">> >>,
       <<200, <<"analog-input", "0">>, "presentValue", <<"float", "5.0">> >> >>

\* the shelf entry of a record
EntryOf(rec) == [k |-> StrOf(SubSeq(rec, 1, 3)), v |-> rec[4]]

\* the orders in which up to MaxExtra different extra records can be met
ExtraOrders ==
    {o \in UNION {[1..n -> 1..Len(ExtraRecords)] : n \in 0..MaxExtra} :
        \A i, j \in 1..Len(o) : o[i] = o[j] => i = j}

BuildLists == {<<100>>, <<100, 100>>, <<100, 200>>, <<200>>}

InitBuild ==
    /\ \E o \in ExtraOrders, baseFirst \in BOOLEAN :
          LET base == [j \in 1..Len(BaseRecords) |-> EntryOf(BaseRecords[j])]
              extra == [j \in 1..Len(o) |-> EntryOf(ExtraRecords[o[j]])]
          IN  shelf = IF baseFirst THEN base \o extra ELSE extra \o base
    /\ args_devid \in BuildLists
    /\ pc = "start"
    /\ idx = 0
    /\ err = NoError
    /\ tried = <<>>
    /\ apps = <<>>
    /\ vlan = <<>>
    /\ transport = {}
    /\ deferredFns = <<>>
    /\ announced = <<>>
    /\ stderr = <<>>
    /\ status = -1

InitBuildMain == InitStore /\ InitBuild

SpecBuild == InitBuildMain /\ [][NextReplay]_vars

\* ------------------------------------------------------------ build claims
\* the shelf's records of device d, in iteration order, as <<o, p, v>>
RecordsOfDevice(d) ==
    LET mine == SelectSeq(shelf, LAMBDA e : Eval(e.k)[1] = d) IN
    [j \in 1..Len(mine) |-> <<Eval(mine[j].k)[2], Eval(mine[j].k)[3], mine[j].v>>]

\* positions where an object identifier outside excl is met for the first time
FirstMet(recs, excl) ==
    {j \in 1..Len(recs) :
        /\ recs[j][1] \notin excl
        /\ \A i \in 1..(j - 1) : recs[i][1] # recs[j][1]}

\* the objects are one per identifier met outside excl, in the order of first
\* meeting, each with every property recorded under its identifier
OnePerIdentifier(objects, recs, excl) ==
    /\ Len(objects) = Cardinality(FirstMet(recs, excl))
    /\ \A n \in 1..Len(objects) :
          \E j \in FirstMet(recs, excl) :
             /\ Cardinality({i \in FirstMet(recs, excl) : i < j}) = n - 1
             /\ objects[n].oid = recs[j][1]
             /\ objects[n].props =
                   {<<recs[i][2], recs[i][3]>> :
                       i \in {i \in 1..Len(recs) : recs[i][1] = recs[j][1]}}

ObjectBuildFails(d) ==
    LET all == ShelfItems(shelf, Len(shelf), Arg(d), NoArg, NoArg)
        groups == PoolObjects(all.out, Len(all.out), DeviceObjectId(d))
    IN  /\ ShelfGet(shelf, <<d, DeviceObjectId(d), "objectName">>).raised = "none"
        /\ ShelfGet(shelf, <<d, DeviceObjectId(d), "vendorIdentifier">>).raised = "none"
        /\ BuildObjects(groups, Len(groups)).raised # "none"

\* C13 as claimed: when constructing an object instance from a property group
\* fails, the builder raises ConfigurationError, which main reports in one line
\* before exiting with status 1.
C13_BuildFailureIsConfigurationError ==
    \A n \in 1..Len(tried) :
        ObjectBuildFails(tried[n]) =>
            /\ err.raised = "ConfigurationError"
            /\ pc \in {"except", "exited"}
            /\ pc = "exited" => Len(stderr) = 1 /\ status = 1

\* C12: the router's i_am_router_to_network runs only once the event loop has
\* started, with the router node and the node of every peer device attached to
\* the vlan; it never runs during construction, nor when construction failed.
C12_AnnounceAfterAttach ==
    /\ announced # <<>> => pc = "running" /\ err.raised = "none"
    /\ \A n \in 1..Len(announced) :
          /\ announced[n].fn = "i_am_router_to_network"
          /\ Len(announced[n].vlan) = Len(args_devid)
          /\ \A i \in 1..Len(args_devid) :
                /\ announced[n].vlan[i].app = i
                /\ apps[i].device_id = args_devid[i]
          /\ announced[n].vlan[1].addr = 1

C12_Witness ==
    /\ pc = "running"
    /\ announced # <<>>
    /\ Len(args_devid) >= 2
    /\ Len(announced[1].vlan) = Len(args_devid)

\* the stored records of device d under object identifier o, as items yields them
StoredUnder(d, o) ==
    {<<Eval(shelf[j].k)[1], Eval(shelf[j].k)[2], Eval(shelf[j].k)[3], shelf[j].v>> :
        j \in {j \in 1..Len(shelf) :
                  Eval(shelf[j].k)[1] = d /\ Eval(shelf[j].k)[2] = o}}

\* C14 as claimed: items(d, "type:instance") yields exactly the stored records
\* whose device identifier and object identifier equal the supplied ones; so
\* the query a device's construction makes for its own device object yields
\* every record of that object.
C14_ItemsByObjectIdentifier ==
    \A a \in 1..Len(apps) :
        LET d == apps[a].device_id
            r == ShelfItems(shelf, Len(shelf), Arg(d), Arg(DeviceObjectId(d)), NoArg)
        IN  /\ r.raised = "none"
            /\ Range(r.out) = StoredUnder(d, DeviceObjectId(d))

\* ------------------------------------------------------- generator claims
\* seq is the start of whole
IsPrefix(seq, whole) ==
    Len(seq) <= Len(whole) /\ seq = SubSeq(whole, 1, Len(seq))

\* the generator yields the items of tbl that pass its filters, no others, in
\* order, and all of them once it is exhausted
YieldsItemsOf(tbl) ==
    LET whole == ItemsAll(tbl, gen.args[1], gen.args[2], gen.args[3]) IN
    /\ IsPrefix(gen.out, whole)
    /\ Len(gen.out) + Len(gen.rows) = Len(whole)
    /\ gen.state = "done" => gen.out = whole

\* C15 as claimed: the sequence items() returns is the content of the store at
\* the time items() was called; no set made after the call, even before the
\* first element is taken, changes what it yields; and it is finite.
C15_MaterializedAtCall ==
    gen.state \in {"running", "done"} => YieldsItemsOf(gen.atCall)

\* C15 amended: the sequence is the content of the store at the time its first
\* element is requested; no set made after that changes what it yields, a set
\* made between the call and that request is seen, and it is finite.
C15_MaterializedAtFirstNext ==
    gen.state \in {"running", "done"} => YieldsItemsOf(gen.atStart)

C15_Witness ==
    /\ gen.state = "done"
    /\ gen.out # <<>>
    /\ gen.atStart # gen.atCall
    /\ table # gen.atStart
    /\ gen.out # ItemsAll(table, gen.args[1], gen.args[2], gen.args[3])
    /\ gen.out # ItemsAll(gen.atCall, gen.args[1], gen.args[2], gen.args[3])
====
